---- MODULE Spec2Model ----
(***************************************************************************)
(* Model of the blueprint decode-and-extract core of chayde/grimoire       *)
(* (src/app/services/blueprint_parser.py).                                 *)
(*                                                                         *)
(* Text is a sequence of characters, a character a one-character string;   *)
(* a character outside ASCII is written "U+00E9" (and the grave accent,    *)
(* code 96, "U+0060").  Bytes are sequences of integers 0..255.  A JSON    *)
(* value is a tagged record:                                               *)
(*   [t |-> "null"]  [t |-> "bool", b |-> TRUE]                            *)
(*   [t |-> "num", half2 |-> k, float |-> f]   the number k/2, an int or a *)
(*                                             float (k is even for an int)*)
(*   [t |-> "u64", bits |-> b]   an int of 64 bits, lowest bit first       *)
(*   [t |-> "str", s |-> text]   [t |-> "arr", a |-> sequence of values]   *)
(*   [t |-> "obj", o |-> sequence of <<key, value>>, in insertion order].  *)
(***************************************************************************)
EXTENDS Integers, Sequences, FiniteSets, TLC

VARIABLES pc, blueprint_string, encoded_data, compressed_data, json_data,
          blueprint_data, exc, metadata, entities, dimensions, prior,
          version_int, version, tag_names, db, blueprint, response

\* The state of a request to the service: the tags of the request, the
\* database and its session, the Blueprint object and the HTTP response.
svars == <<tag_names, db, blueprint, response>>

vars == <<pc, blueprint_string, encoded_data, compressed_data, json_data,
          blueprint_data, exc, metadata, entities, dimensions, prior,
          version_int, version, tag_names, db, blueprint, response>>

(***************************************************************************)
(* Characters and bytes.                                                   *)
(***************************************************************************)

\* The printable ASCII characters, code 32 (space) to 126 (~), in order.
Printable ==
  << " ", "!", "\"", "#", "$", "%", "&", "'", "(", ")", "*", "+", ",", "-", ".", "/",
     "0", "1", "2", "3", "4", "5", "6", "7", "8", "9", ":", ";", "<", "=", ">", "?",
     "@", "A", "B", "C", "D", "E", "F", "G", "H", "I", "J", "K", "L", "M", "N", "O",
     "P", "Q", "R", "S", "T", "U", "V", "W", "X", "Y", "Z", "[", "\\", "]", "^", "_",
     "U+0060", "a", "b", "c", "d", "e", "f", "g", "h", "i", "j", "k", "l", "m", "n", "o",
     "p", "q", "r", "s", "t", "u", "v", "w", "x", "y", "z", "{", "|", "}", "~" >>

IsAscii(c) == \E i \in 1..Len(Printable) : Printable[i] = c

\* The code of an ASCII character, and the character of a code.
Ord(c) == 31 + (CHOOSE i \in 1..Len(Printable) : Printable[i] = c)

Chr(b) == Printable[b - 31]

\* str.encode / bytes.decode restricted to printable ASCII text.
TextBytes(s) == [i \in 1..Len(s) |-> Ord(s[i])]

\* A raised exception or a returned value: the outcome of a library call.
Raise(kind) == [ok |-> FALSE, exc |-> kind, val |-> <<>>]

Return(v) == [ok |-> TRUE, exc |-> "none", val |-> v]

(***************************************************************************)
(* base64 (Python's base64.b64decode with its default validate=False, and  *)
(* base64.b64encode).                                                      *)
(***************************************************************************)

\* binascii's table_a2b_base64: the 6-bit value of a character of the
\* alphabet, 64 for every other character.
B64Value(c) ==
  IF ~IsAscii(c) THEN 64
  ELSE LET o == Ord(c) IN
       CASE o >= 65 /\ o <= 90  -> o - 65
         [] o >= 97 /\ o <= 122 -> (o - 97) + 26
         [] o >= 48 /\ o <= 57  -> (o - 48) + 52
         [] o = 43              -> 62
         [] o = 47              -> 63
         [] OTHER               -> 64

\* The 6-bit values of the alphabet characters of s[lo..hi], in order.
RECURSIVE DataValues(_, _, _)
DataValues(s, lo, hi) ==
  IF lo > hi THEN <<>>
  ELSE IF lo = hi
  THEN (IF B64Value(s[lo]) < 64 THEN << B64Value(s[lo]) >> ELSE <<>>)
  ELSE LET mid == (lo + hi) \div 2
       IN  DataValues(s, lo, mid) \o DataValues(s, mid + 1, hi)

\* At position i of binascii.a2b_base64's loop: quad_pos, the number of
\* alphabet characters read so far modulo 4, and pads, the number of pads
\* read since the last alphabet character (counted while quad_pos >= 2).
QuadPos(s, i) == Cardinality({j \in 1..(i - 1) : B64Value(s[j]) < 64}) % 4

Pads(s, i) ==
  IF QuadPos(s, i) < 2 THEN 0
  ELSE Cardinality({j \in 1..(i - 1) :
                      /\ s[j] = "="
                      /\ \A k \in (j + 1)..(i - 1) : B64Value(s[k]) >= 64})

\* The pads that end the data: a pad that completes its quad.
PadStops(s) ==
  {i \in 1..Len(s) :
     s[i] = "=" /\ QuadPos(s, i) >= 2 /\ QuadPos(s, i) + Pads(s, i) + 1 >= 4}

\* binascii.a2b_base64 in non-strict mode.  The loop reads the characters in
\* order: a pad that completes its quad ends the data, any other pad and any
\* character outside the alphabet is skipped, every alphabet character adds
\* six bits.  A quad left incomplete at the end of the string is an error.
A2bBase64(s) ==
  LET stops == PadStops(s)
      end   == IF stops = {} THEN Len(s) + 1
               ELSE CHOOSE i \in stops : \A j \in stops : i <= j
      d     == DataValues(s, 1, end - 1)
      n     == Len(d)
      byte(j) == LET g == 4 * ((j - 1) \div 3)
                 IN  CASE (j - 1) % 3 = 0 -> (d[g + 1] * 4) + (d[g + 2] \div 16)
                       [] (j - 1) % 3 = 1 ->
                            ((d[g + 2] % 16) * 16) + (d[g + 3] \div 4)
                       [] OTHER -> ((d[g + 3] % 4) * 64) + d[g + 4]
  IN  IF stops = {} /\ n % 4 # 0 THEN Raise("binascii.Error")
      ELSE Return([j \in 1..((n * 6) \div 8) |-> byte(j)])

\* base64.b64decode(s) for a str s: s.encode("ascii") fails with ValueError
\* on a character outside ASCII; then binascii.a2b_base64.
B64Decode(s) ==
  IF \E i \in 1..Len(s) : ~IsAscii(s[i])
  THEN Raise("ValueError")
  ELSE A2bBase64(s)

B64Char(v) ==
  CASE v <= 25 -> Chr(65 + v)
    [] v <= 51 -> Chr(97 + (v - 26))
    [] v <= 61 -> Chr(48 + (v - 52))
    [] v = 62  -> "+"
    [] OTHER   -> "/"

\* base64.b64encode: three bytes to four characters, "=" padding at the end.
B64Encode(b) ==
  LET n == Len(b)
      at(i) == IF i <= n THEN b[i] ELSE 0
      char(k) == LET g == 3 * ((k - 1) \div 4)
                 IN  CASE (k - 1) % 4 = 0 -> B64Char(at(g + 1) \div 4)
                       [] (k - 1) % 4 = 1 ->
                            B64Char(((at(g + 1) % 4) * 16) + (at(g + 2) \div 16))
                       [] (k - 1) % 4 = 2 ->
                            IF g + 2 > n THEN "="
                            ELSE B64Char(((at(g + 2) % 16) * 4) + (at(g + 3) \div 64))
                       [] OTHER ->
                            IF g + 3 > n THEN "=" ELSE B64Char(at(g + 3) % 64)
  IN  [k \in 1..(4 * ((n + 2) \div 3)) |-> char(k)]

(***************************************************************************)
(* zlib (RFC 1950 container, RFC 1951 stored blocks).                      *)
(***************************************************************************)

AdlerBase == 65521

\* The sum of (k - i) * data[i] for i in lo..hi.
RECURSIVE WeightedSum(_, _, _, _)
WeightedSum(data, lo, hi, k) ==
  IF lo > hi THEN 0
  ELSE IF lo = hi THEN (k - lo) * data[lo]
  ELSE LET mid == (lo + hi) \div 2
       IN  WeightedSum(data, lo, mid, k) + WeightedSum(data, mid + 1, hi, k)

\* Adler-32 as its two 16-bit sums <<a, b>>: a is 1 plus the bytes, b the sum
\* of the values a takes (each byte counted once for every byte from it to
\* the end), both modulo 65521.
Adler32(data) ==
  LET n == Len(data)
  IN  << (1 + (WeightedSum(data, 1, n, n + 1)
               - WeightedSum(data, 1, n, n))) % AdlerBase,
         (n + WeightedSum(data, 1, n, n + 1)) % AdlerBase >>

\* The checksum as the stream's four trailing bytes, most significant first.
AdlerBytes(data) ==
  LET s == Adler32(data)
  IN  << s[2] \div 256, s[2] % 256, s[1] \div 256, s[1] % 256 >>

\* A zlib stream of the data: the header 78 01 and one final stored block,
\* as zlib.compress writes at level 0.
Deflate(data) ==
  LET n == Len(data)
  IN  << 120, 1, 1, n % 256, n \div 256, 255 - (n % 256), 255 - (n \div 256) >>
      \o data \o AdlerBytes(data)

\* The blocks of a deflate stream from position i on.  A stored block holds
\* LEN, its complement and LEN bytes; block type 3 is reserved.  A Huffman
\* block (type 1 or 2) needs at least two bytes and then the trailer of
\* four: a shorter stream is truncated, a longer one is outside the model
\* ("unmodelled").
RECURSIVE InflateBlocks(_, _, _)
InflateBlocks(b, i, out) ==
  IF i > Len(b) THEN Raise("zlib.error")
  ELSE LET bfinal == b[i] % 2
           btype  == (b[i] \div 2) % 4
       IN  CASE btype = 3 -> Raise("zlib.error")
             [] btype = 0 ->
                  IF i + 4 > Len(b) THEN Raise("zlib.error")
                  ELSE LET len  == b[i + 1] + (256 * b[i + 2])
                           nlen == b[i + 3] + (256 * b[i + 4])
                       IN  IF len + nlen # 65535 THEN Raise("zlib.error")
                           ELSE IF i + 4 + len > Len(b) THEN Raise("zlib.error")
                           ELSE LET data == out \o SubSeq(b, i + 5, i + 4 + len)
                                    j    == i + 5 + len
                                IN  IF bfinal = 0
                                    THEN InflateBlocks(b, j, data)
                                    ELSE IF j + 3 > Len(b)
                                    THEN Raise("zlib.error")
                                    ELSE IF SubSeq(b, j, j + 3) # AdlerBytes(data)
                                    THEN Raise("zlib.error")
                                    ELSE Return(data)
             [] OTHER ->
                  IF Len(b) - i + 1 < 6 THEN Raise("zlib.error")
                  ELSE Raise("unmodelled")

\* zlib.decompress: the two header bytes (method 8, window at most 32K, the
\* check bits, no preset dictionary), the blocks, the Adler-32 trailer.  Bytes
\* after the trailer are ignored.  Every failure is zlib.error.
Inflate(b) ==
  IF Len(b) < 2 THEN Raise("zlib.error")
  ELSE IF b[1] % 16 # 8 \/ b[1] \div 16 > 7 THEN Raise("zlib.error")
  ELSE IF ((b[1] * 256) + b[2]) % 31 # 0 THEN Raise("zlib.error")
  ELSE IF (b[2] \div 32) % 2 = 1 THEN Raise("zlib.error")
  ELSE InflateBlocks(b, 3, <<>>)

(***************************************************************************)
(* JSON (Python's json.dumps with its default separators, and json.loads   *)
(* of bytes).                                                              *)
(***************************************************************************)

Digits == {"0", "1", "2", "3", "4", "5", "6", "7", "8", "9"}

\* The decimal digits of a natural number.
RECURSIVE IntText(_)
IntText(n) ==
  IF n < 10 THEN << Chr(48 + n) >>
  ELSE Append(IntText(n \div 10), Chr(48 + (n % 10)))

\* repr of the number k/2: the digits of an int, and of a float its whole
\* part, a point and the digit 0 or 5.
NumText(v) ==
  LET k == v.half2
      m == IF k < 0 THEN -k ELSE k
      body == IF ~v.float THEN IntText(m \div 2)
              ELSE IntText(m \div 2) \o << ".", IF m % 2 = 0 THEN "0" ELSE "5" >>
  IN  IF k < 0 THEN << "-" >> \o body ELSE body

\* json.dumps: ", " between items and ": " after a key.
RECURSIVE JsonDumps(_)
RECURSIVE DumpItems(_, _)
RECURSIVE DumpMembers(_, _)
JsonDumps(v) ==
  CASE v.t = "null" -> << "n", "u", "l", "l" >>
    [] v.t = "bool" -> IF v.b THEN << "t", "r", "u", "e" >>
                       ELSE << "f", "a", "l", "s", "e" >>
    [] v.t = "num"  -> NumText(v)
    [] v.t = "str"  -> << "\"" >> \o v.s \o << "\"" >>
    [] v.t = "arr"  -> << "[" >> \o DumpItems(v.a, 1) \o << "]" >>
    [] OTHER        -> << "{" >> \o DumpMembers(v.o, 1) \o << "}" >>

DumpItems(a, i) ==
  IF i > Len(a) THEN <<>>
  ELSE (IF i > 1 THEN << ",", " " >> ELSE <<>>)
       \o JsonDumps(a[i]) \o DumpItems(a, i + 1)

DumpMembers(o, i) ==
  IF i > Len(o) THEN <<>>
  ELSE (IF i > 1 THEN << ",", " " >> ELSE <<>>)
       \o << "\"" >> \o o[i][1] \o << "\"", ":", " " >>
       \o JsonDumps(o[i][2]) \o DumpMembers(o, i + 1)

\* A scan's result: the value and the position after it ("ok"), a syntax
\* error ("err"), or a construct outside the model ("unmodelled": escapes,
\* exponents, fractions other than .0 and .5, NaN and Infinity, long numbers).
POk(v, pos) == [st |-> "ok", val |-> v, pos |-> pos]

PErr(pos) == [st |-> "err", val |-> <<>>, pos |-> pos]

PUnmodelled(pos) == [st |-> "unmodelled", val |-> <<>>, pos |-> pos]

RECURSIVE SkipWs(_, _)
SkipWs(t, i) == IF i <= Len(t) /\ t[i] = " " THEN SkipWs(t, i + 1) ELSE i

Matches(t, i, word) ==
  /\ i + Len(word) - 1 <= Len(t)
  /\ SubSeq(t, i, i + Len(word) - 1) = word

\* The characters of a string from i up to its closing quote.
ScanString(t, i) ==
  LET marks == {j \in i..Len(t) : t[j] \in {"\"", "\\"}}
      j     == CHOOSE j \in marks : \A k \in marks : j <= k
  IN  IF marks = {} THEN PErr(i)
      ELSE IF t[j] = "\\" THEN PUnmodelled(j)
      ELSE POk(SubSeq(t, i, j - 1), j + 1)

MaxDigits == 7

\* A run of digits from i: <<value, position after it>>, the value -1 when
\* the run is longer than MaxDigits.
RECURSIVE ScanDigits(_, _, _, _)
ScanDigits(t, i, acc, n) ==
  IF i > Len(t) \/ t[i] \notin Digits THEN << acc, i >>
  ELSE IF n >= MaxDigits THEN << -1, i >>
  ELSE ScanDigits(t, i + 1, (acc * 10) + (Ord(t[i]) - 48), n + 1)

\* The digits of a fraction from i: <<0 for .0, 1 for .5, 2 otherwise,
\* position after it>>.
RECURSIVE ScanFrac(_, _, _, _)
ScanFrac(t, i, first, kind) ==
  IF i > Len(t) \/ t[i] \notin Digits THEN << kind, i >>
  ELSE LET k == IF t[i] = "0" THEN kind
                ELSE IF first /\ t[i] = "5" THEN 1
                ELSE 2
       IN  ScanFrac(t, i + 1, FALSE, k)

\* The scanner's number pattern: -?(0|[1-9][0-9]*)(.[0-9]+)?([eE][-+]?[0-9]+)?
ScanNumber(t, i) ==
  LET neg == t[i] = "-"
      j   == IF neg THEN i + 1 ELSE i
  IN  IF j > Len(t) THEN PErr(i)
      ELSE IF t[j] = "I" THEN PUnmodelled(i)
      ELSE IF t[j] \notin Digits THEN PErr(i)
      ELSE LET ip   == IF t[j] = "0" THEN << 0, j + 1 >>
                       ELSE ScanDigits(t, j, 0, 0)
               k    == ip[2]
               frac == k + 1 <= Len(t) /\ t[k] = "." /\ t[k + 1] \in Digits
               fp   == IF frac THEN ScanFrac(t, k + 1, TRUE, 0) ELSE << 0, k >>
               e    == fp[2]
               expo == /\ e + 1 <= Len(t)
                       /\ t[e] \in {"e", "E"}
                       /\ \/ t[e + 1] \in Digits
                          \/ /\ e + 2 <= Len(t)
                             /\ t[e + 1] \in {"+", "-"}
                             /\ t[e + 2] \in Digits
               mag  == (2 * ip[1]) + fp[1]
           IN  IF ip[1] < 0 \/ fp[1] = 2 \/ expo THEN PUnmodelled(i)
               ELSE POk([t |-> "num", half2 |-> IF neg THEN -mag ELSE mag,
                         float |-> frac], e)

\* dict assignment: a repeated key keeps its place and takes the new value.
ObjPut(o, k, v) ==
  IF \E i \in 1..Len(o) : o[i][1] = k
  THEN [i \in 1..Len(o) |-> IF o[i][1] = k THEN << k, v >> ELSE o[i]]
  ELSE Append(o, << k, v >>)

\* The scanner: one value from position i.
RECURSIVE ScanValue(_, _)
RECURSIVE ScanArray(_, _, _)
RECURSIVE ScanObject(_, _, _)
ScanValue(t, i) ==
  IF i > Len(t) THEN PErr(i)
  ELSE CASE t[i] = "\"" ->
              LET r == ScanString(t, i + 1)
              IN  IF r.st = "ok" THEN POk([t |-> "str", s |-> r.val], r.pos)
                  ELSE r
         [] t[i] = "{" ->
              LET j == SkipWs(t, i + 1)
              IN  IF j <= Len(t) /\ t[j] = "}"
                  THEN POk([t |-> "obj", o |-> <<>>], j + 1)
                  ELSE ScanObject(t, j, <<>>)
         [] t[i] = "[" ->
              LET j == SkipWs(t, i + 1)
              IN  IF j <= Len(t) /\ t[j] = "]"
                  THEN POk([t |-> "arr", a |-> <<>>], j + 1)
                  ELSE ScanArray(t, j, <<>>)
         [] Matches(t, i, << "n", "u", "l", "l" >>) ->
              POk([t |-> "null"], i + 4)
         [] Matches(t, i, << "t", "r", "u", "e" >>) ->
              POk([t |-> "bool", b |-> TRUE], i + 4)
         [] Matches(t, i, << "f", "a", "l", "s", "e" >>) ->
              POk([t |-> "bool", b |-> FALSE], i + 5)
         [] t[i] \in Digits \union {"-"} -> ScanNumber(t, i)
         [] t[i] \in {"N", "I"} -> PUnmodelled(i)
         [] OTHER -> PErr(i)

\* The items of an array from the item at i, after those in acc.
ScanArray(t, i, acc) ==
  LET r == ScanValue(t, i)
  IN  IF r.st # "ok" THEN r
      ELSE LET j == SkipWs(t, r.pos)
           IN  IF j > Len(t) THEN PErr(j)
               ELSE IF t[j] = "]"
               THEN POk([t |-> "arr", a |-> Append(acc, r.val)], j + 1)
               ELSE IF t[j] = ","
               THEN ScanArray(t, SkipWs(t, j + 1), Append(acc, r.val))
               ELSE PErr(j)

\* The members of an object from the key at i, after those in acc.
ScanObject(t, i, acc) ==
  IF i > Len(t) \/ t[i] # "\"" THEN PErr(i)
  ELSE LET k == ScanString(t, i + 1)
       IN  IF k.st # "ok" THEN k
           ELSE LET c == SkipWs(t, k.pos)
                IN  IF c > Len(t) \/ t[c] # ":" THEN PErr(c)
                    ELSE LET r == ScanValue(t, SkipWs(t, c + 1))
                         IN  IF r.st # "ok" THEN r
                             ELSE LET j == SkipWs(t, r.pos)
                                      o == ObjPut(acc, k.val, r.val)
                                  IN  IF j > Len(t) THEN PErr(j)
                                      ELSE IF t[j] = "}"
                                      THEN POk([t |-> "obj", o |-> o], j + 1)
                                      ELSE IF t[j] = ","
                                      THEN ScanObject(t, SkipWs(t, j + 1), o)
                                      ELSE PErr(j)

\* bytes.decode of the detected encoding.  A byte C0, C1 or F5..FF occurs in
\* no UTF-8 text; printable ASCII decodes to itself; the rest (control
\* characters, multi-byte sequences, a UTF-16 or UTF-32 mark) is unmodelled.
Utf8Decode(b) ==
  IF Len(b) >= 2 /\ b[1] >= 254 /\ b[2] >= 254 THEN Raise("unmodelled")
  ELSE IF \E i \in 1..Len(b) : b[i] \in {192, 193} \union (245..255)
  THEN Raise("UnicodeDecodeError")
  ELSE IF \E i \in 1..Len(b) : b[i] < 32 \/ b[i] > 126
  THEN Raise("unmodelled")
  ELSE Return([i \in 1..Len(b) |-> Chr(b[i])])

\* json.loads of bytes: decode, skip white space, one value, white space, end.
JsonLoads(b) ==
  LET d == Utf8Decode(b)
  IN  IF ~d.ok THEN d
      ELSE LET r == ScanValue(d.val, SkipWs(d.val, 1))
           IN  CASE r.st = "unmodelled" -> Raise("unmodelled")
                 [] r.st = "err" -> Raise("json.JSONDecodeError")
                 [] SkipWs(d.val, r.pos) <= Len(d.val) ->
                      Raise("json.JSONDecodeError")
                 [] OTHER -> Return(r.val)

(***************************************************************************)
(* BlueprintParser.decode, one action per stage.                           *)
(***************************************************************************)

\* Python's exception classes: each kind's base class among those raised here.
ExcParent(kind) ==
  CASE kind = "binascii.Error"       -> "ValueError"
    [] kind = "json.JSONDecodeError" -> "ValueError"
    [] kind = "UnicodeDecodeError"   -> "ValueError"
    [] OTHER                         -> "Exception"

RECURSIVE IsInstance(_, _)
IsInstance(kind, cls) ==
  \/ kind = cls
  \/ kind # "Exception" /\ IsInstance(ExcParent(kind), cls)

\* The classes decode's except clause names.
DecodeCaught == {"binascii.Error", "zlib.error", "json.JSONDecodeError"}

\* What leaves decode when a stage raises kind: the clause turns an instance
\* of a class it names into BlueprintParseError, anything else propagates.
DecodeExcept(kind) ==
  IF \E cls \in DecodeCaught : IsInstance(kind, cls)
  THEN "BlueprintParseError"
  ELSE kind

\* A faulty marker test: the marker anywhere in the string.
StartsWithMarkerAnywhere(s) == \E i \in 1..Len(s) : s[i] = "0"

\* str.startswith("0")
StartsWithMarker(s) == Len(s) >= 1 /\ s[1] = "0"

\* A faulty marker step: the text after the first character is decoded from
\* base64 before the marker is checked.
CheckMarkerAfterDecode ==
  /\ pc = "marker"
  /\ LET rest == IF Len(blueprint_string) = 0 THEN <<>> ELSE Tail(blueprint_string)
         r == B64Decode(rest)
     IN  IF ~r.ok
         THEN /\ exc' = DecodeExcept(r.exc)
              /\ pc' = "raised"
              /\ UNCHANGED encoded_data
         ELSE IF ~StartsWithMarker(blueprint_string)
         THEN /\ exc' = DecodeExcept("BlueprintParseError")
              /\ pc' = "raised"
              /\ UNCHANGED encoded_data
         ELSE /\ encoded_data' = rest
              /\ pc' = "b64decode"
              /\ UNCHANGED exc
  /\ UNCHANGED svars
  /\ UNCHANGED <<blueprint_string, compressed_data, json_data, blueprint_data,
                 metadata, entities, dimensions, prior, version_int, version>>

\* A faulty marker step: the marker is checked but not removed.
CheckMarkerKeepsMarker ==
  /\ pc = "marker"
  /\ IF ~StartsWithMarker(blueprint_string)
     THEN /\ exc' = DecodeExcept("BlueprintParseError")
          /\ pc' = "raised"
          /\ UNCHANGED encoded_data
     ELSE /\ encoded_data' = blueprint_string
          /\ pc' = "b64decode"
          /\ UNCHANGED exc
  /\ UNCHANGED svars
  /\ UNCHANGED <<blueprint_string, compressed_data, json_data, blueprint_data,
                 metadata, entities, dimensions, prior, version_int, version>>

\* Marker check: a string that does not start with "0" raises
\* BlueprintParseError (which the except clause does not name); otherwise
\* the marker is cut off.
CheckMarker ==
  /\ pc = "marker"
  /\ IF ~StartsWithMarker(blueprint_string)
     THEN /\ exc' = DecodeExcept("BlueprintParseError")
          /\ pc' = "raised"
          /\ UNCHANGED encoded_data
     ELSE /\ encoded_data' = Tail(blueprint_string)
          /\ pc' = "b64decode"
          /\ UNCHANGED exc
  /\ UNCHANGED svars
  /\ UNCHANGED <<blueprint_string, compressed_data, json_data, blueprint_data,
                 metadata, entities, dimensions, prior, version_int, version>>

\* Text decode: base64.b64decode(encoded_data).
Base64Decode ==
  /\ pc = "b64decode"
  /\ LET r == B64Decode(encoded_data)
     IN  IF r.ok
         THEN /\ compressed_data' = r.val
              /\ pc' = "decompress"
              /\ UNCHANGED exc
         ELSE /\ exc' = DecodeExcept(r.exc)
              /\ pc' = "raised"
              /\ UNCHANGED compressed_data
  /\ UNCHANGED svars
  /\ UNCHANGED <<blueprint_string, encoded_data, json_data, blueprint_data,
                 metadata, entities, dimensions, prior, version_int, version>>

\* Decompression: zlib.decompress(compressed_data).
ZlibDecompress ==
  /\ pc = "decompress"
  /\ LET r == Inflate(compressed_data)
     IN  IF r.ok
         THEN /\ json_data' = r.val
              /\ pc' = "loads"
              /\ UNCHANGED exc
         ELSE /\ exc' = DecodeExcept(r.exc)
              /\ pc' = "raised"
              /\ UNCHANGED json_data
  /\ UNCHANGED svars
  /\ UNCHANGED <<blueprint_string, encoded_data, compressed_data,
                 blueprint_data, metadata, entities, dimensions, prior,
                 version_int, version>>

\* Structured parse: json.loads(json_data); decode returns the document.
JsonParse ==
  /\ pc = "loads"
  /\ LET r == JsonLoads(json_data)
     IN  IF r.ok
         THEN /\ blueprint_data' = r.val
              /\ pc' = "decoded"
              /\ UNCHANGED exc
         ELSE /\ exc' = DecodeExcept(r.exc)
              /\ pc' = "raised"
              /\ UNCHANGED blueprint_data
  /\ UNCHANGED svars
  /\ UNCHANGED <<blueprint_string, encoded_data, compressed_data, json_data,
                 metadata, entities, dimensions, prior, version_int, version>>

(***************************************************************************)
(* The wire format, as the test suite's create_test_blueprint writes it.   *)
(***************************************************************************)

\* "0" + base64(zlib(utf8(json.dumps(document))))
Encode(doc) == << "0" >> \o B64Encode(Deflate(TextBytes(JsonDumps(doc))))

\* The same framing around arbitrary payload bytes.
EncodeBytes(b) == << "0" >> \o B64Encode(Deflate(b))

(***************************************************************************)
(* Documents and input strings of the decode specification.                *)
(***************************************************************************)

Null == [t |-> "null"]

\* An object that has no id yet has the id 0.
\* A database: the committed rows of the tables blueprints,
\* blueprint_entities, tags and blueprint_tags, the objects added to the
\* session and not yet flushed (new), the rows flushed in the open
\* transaction (flushed), and the session calls made so far (calls).
NoRows == [blueprints |-> {}, blueprint_entities |-> {}, tags |-> {},
           blueprint_tags |-> {}]

Database(rows) == [rows |-> rows, new |-> <<>>, flushed |-> NoRows, calls |-> <<>>]

\* No request: the parser called on its own.
NoService ==
  /\ tag_names = Null
  /\ db = Database(NoRows)
  /\ blueprint = Null
  /\ response = "none"

Bool(b) == [t |-> "bool", b |-> b]

\* The int n, and the float k/2.
Num(n) == [t |-> "num", half2 |-> 2 * n, float |-> FALSE]

Float(k) == [t |-> "num", half2 |-> k, float |-> TRUE]

Str(s) == [t |-> "str", s |-> s]

Arr(a) == [t |-> "arr", a |-> a]

Obj(o) == [t |-> "obj", o |-> o]

K_blueprint == << "b", "l", "u", "e", "p", "r", "i", "n", "t" >>

K_blueprint_book == << "b", "l", "u", "e", "p", "r", "i", "n", "t", "_", "b", "o", "o", "k" >>

K_label == << "l", "a", "b", "e", "l" >>

K_description == << "d", "e", "s", "c", "r", "i", "p", "t", "i", "o", "n" >>

K_entities == << "e", "n", "t", "i", "t", "i", "e", "s" >>

K_name == << "n", "a", "m", "e" >>

K_position == << "p", "o", "s", "i", "t", "i", "o", "n" >>

K_x == << "x" >>

K_y == << "y" >>

K_version == << "v", "e", "r", "s", "i", "o", "n" >>

K_blueprints == << "b", "l", "u", "e", "p", "r", "i", "n", "t", "s" >>

T_unknown == << "u", "n", "k", "n", "o", "w", "n" >>

T_untitled == << "U", "n", "t", "i", "t", "l", "e", "d", " ", "B", "l", "u", "e", "p", "r", "i", "n", "t" >>

T_untitled_book == << "U", "n", "t", "i", "t", "l", "e", "d", " ", "B", "l", "u", "e", "p", "r", "i", "n", "t", " ", "B", "o", "o", "k" >>

T_belt == << "b", "e", "l", "t" >>

T_inserter == << "i", "n", "s", "e", "r", "t", "e", "r" >>

MaxArrayLen == 2

MaxRawLen == 3

MaxTrunc == 3

SeqsUpTo(S, n) == UNION {[1..k -> S] : k \in 0..n}

Atoms ==
  {Null, Bool(TRUE), Num(0), Float(1), Float(-4), Num(-2), Num(123),
   Str(<< "a" >>)}

\* The documents of the scenarios: the minimal blueprint, the 6 by 4 box, the
\* book of three, the empty document, and a blueprint like the test suite's.
MinimalDoc == Obj(<< << K_blueprint, Obj(<< << K_entities, Arr(<<>>) >> >>) >> >>)

BoxDoc ==
  Obj(<< << K_blueprint, Obj(<< << K_entities, Arr(<<
    Obj(<< << K_position, Obj(<< << K_x, Num(0) >>, << K_y, Num(0) >> >>) >> >>),
    Obj(<< << K_position, Obj(<< << K_x, Num(5) >>, << K_y, Num(3) >> >>) >> >>)
  >>) >> >>) >> >>)

BookDoc ==
  Obj(<< << K_blueprint_book, Obj(<< << K_label, Str(<< "X" >>) >>,
    << K_blueprints, Arr(<< Obj(<<>>), Obj(<<>>), Obj(<<>>) >>) >> >>) >> >>)

EmptyDoc == Obj(<<>>)

SampleDoc ==
  Obj(<< << K_blueprint, Obj(<<
    << K_label, Str(<< "T", "e", "s", "t" >>) >>,
    << K_description, Str(<< "A", " ", "t", "e", "s", "t" >>) >>,
    << K_entities, Arr(<<
      Obj(<< << K_name, Str(T_belt) >>,
             << K_position, Obj(<< << K_x, Float(1) >>, << K_y, Float(1) >> >>) >> >>),
      Obj(<< << K_name, Str(T_inserter) >>,
             << K_position, Obj(<< << K_x, Float(5) >>, << K_y, Float(-1) >> >>) >> >>)
    >>) >>,
    << K_version, Num(0) >> >>) >> >>)

ScenarioDocs == {MinimalDoc, BoxDoc, BookDoc, EmptyDoc, SampleDoc}

\* Every atom, every array of at most MaxArrayLen atoms, every object of one
\* or two members over three keys, and the scenarios.
WireDocs ==
  Atoms
  \union {Arr(a) : a \in SeqsUpTo(Atoms, MaxArrayLen)}
  \union {Obj(<< << k, v >> >>) :
            k \in {<< "a" >>, K_blueprint, K_blueprint_book}, v \in Atoms}
  \union {Obj(<< << K_blueprint, Obj(<< << << "a" >>, v >> >>) >>,
                 << K_blueprint_book, Arr(<< w >>) >> >>) :
            v \in Atoms, w \in {Null, Float(1)}}
  \union ScenarioDocs

\* Payloads that are not the text of a document: empty, a byte outside UTF-8,
\* an open brace, trailing text, a dangling comma, an unterminated string.
BadPayloads ==
  { <<>>, << 255 >>, << 123, 255, 125 >>, TextBytes(<< "{" >>),
    TextBytes(<< "{", "}", " ", "x" >>), TextBytes(<< "[", "1", ",", "]" >>),
    TextBytes(<< "\"", "a" >>) }

\* The characters of the short raw strings, and those inserted into a valid
\* string: the marker, alphabet characters, the pad, a character outside the
\* alphabet, a character outside ASCII.
RawChars == {"0", "e", "A", "=", "!", "U+00E9"}

InsertChars == {"=", "!", "U+00E9"}

ShortStrings == SeqsUpTo(RawChars, MaxRawLen)

InsertAt(s, i, c) == SubSeq(s, 1, i - 1) \o << c >> \o SubSeq(s, i, Len(s))

MutationBases == {Encode(MinimalDoc), Encode(BookDoc)}

Inserted ==
  UNION {{InsertAt(s, i, c) : i \in 1..(Len(s) + 1), c \in InsertChars} :
           s \in MutationBases}

Truncated ==
  UNION {{SubSeq(s, 1, Len(s) - k) : k \in 1..MaxTrunc} : s \in MutationBases}

DecodeInputs ==
  ShortStrings
  \union {Encode(d) : d \in WireDocs}
  \union {EncodeBytes(b) : b \in BadPayloads}
  \union Inserted
  \union Truncated

\* A call decode(blueprint_string).
InitDecode ==
  /\ pc = "marker"
  /\ blueprint_string \in DecodeInputs
  /\ encoded_data = <<>>
  /\ compressed_data = <<>>
  /\ json_data = <<>>
  /\ blueprint_data = Null
  /\ exc = "none"
  /\ NoService
  /\ metadata = Null
  /\ entities = <<>>
  /\ dimensions = Null
  /\ prior = Null
  /\ version_int = <<>>
  /\ version = Null

NextDecode == CheckMarker \/ Base64Decode \/ ZlibDecompress \/ JsonParse

SpecDecode == InitDecode /\ [][NextDecode]_vars

(***************************************************************************)
(* BlueprintParser.extract_metadata and its helpers.                       *)
(***************************************************************************)

\* key in d, and d.get(key, default), for the members o of a dict.
Has(o, k) == \E i \in 1..Len(o) : o[i][1] = k

Get(o, k, default) ==
  IF Has(o, k) THEN o[CHOOSE i \in 1..Len(o) : o[i][1] = k][2] ELSE default

\* key in value: a key of a dict, an item of a list, a part of a str.
Contains(v, k) ==
  CASE v.t = "obj" -> Has(v.o, k)
    [] v.t = "arr" -> \E i \in 1..Len(v.a) : v.a[i] = Str(k)
    [] v.t = "str" -> \E i \in 1..Len(v.s) : Matches(v.s, i, k)
    [] OTHER       -> FALSE

\* A faulty histogram loop: an entity without a name is skipped.
RECURSIVE CountEntitiesNamed(_, _, _)
CountEntitiesNamed(es, i, counts) ==
  IF i > Len(es) THEN counts
  ELSE IF ~Has(es[i].o, K_name) THEN CountEntitiesNamed(es, i + 1, counts)
  ELSE LET entity_name == Get(es[i].o, K_name, Str(T_unknown))
       IN  CountEntitiesNamed(es, i + 1,
                              ObjPut(counts, entity_name,
                                     Get(counts, entity_name, 0) + 1))

\* The histogram loop: the counts after the entities from i on, starting
\* from counts; an entity without a name counts as "unknown".
RECURSIVE CountEntities(_, _, _)
CountEntities(es, i, counts) ==
  IF i > Len(es) THEN counts
  ELSE LET entity_name == Get(es[i].o, K_name, Str(T_unknown))
       IN  CountEntities(es, i + 1,
                         ObjPut(counts, entity_name,
                                Get(counts, entity_name, 0) + 1))

Min(S) == CHOOSE m \in S : \A n \in S : m <= n

Max(S) == CHOOSE m \in S : \A n \in S : m >= n

\* int() of the number h/2: towards zero.
TruncHalf(h) == IF h >= 0 THEN h \div 2 ELSE -((-h) \div 2)

\* A faulty collection: only the positions that have both x and y.
CoordListBoth(positions, key) ==
  LET with == SelectSeq(positions, LAMBDA p : Has(p.o, K_x) /\ Has(p.o, K_y))
  IN  [i \in 1..Len(with) |-> Get(with[i].o, key, Num(0)).half2]

\* The coordinates (in halves) under key of the positions that have the key.
CoordList(positions, key) ==
  LET with == SelectSeq(positions, LAMBDA p : Has(p.o, key))
  IN  [i \in 1..Len(with) |-> Get(with[i].o, key, Num(0)).half2]

Range(seq) == {seq[i] : i \in 1..Len(seq)}

\* The coordinates (in halves) of the entities of es under key.
EntityCoords(es, key) ==
  Range(CoordList([i \in 1..Len(es) |-> Get(es[i].o, K_position, Obj(<<>>))], key))

\* A faulty _calculate_dimensions: each axis on its own, 0 only for the axis
\* without coordinates.
CalculateDimensionsPerAxis(es) ==
  LET xs == EntityCoords(es, K_x)
      ys == EntityCoords(es, K_y)
  IN  [width  |-> IF xs = {} THEN 0 ELSE TruncHalf(Max(xs) - Min(xs)) + 1,
       height |-> IF ys = {} THEN 0 ELSE TruncHalf(Max(ys) - Min(ys)) + 1]

\* A faulty _calculate_dimensions: int() of each bound before the
\* subtraction.
CalculateDimensionsTruncFirst(es) ==
  LET xs == EntityCoords(es, K_x)
      ys == EntityCoords(es, K_y)
  IN  IF xs = {} \/ ys = {} THEN [width |-> 0, height |-> 0]
      ELSE [width  |-> (TruncHalf(Max(xs)) - TruncHalf(Min(xs))) + 1,
            height |-> (TruncHalf(Max(ys)) - TruncHalf(Min(ys))) + 1]

\* _calculate_dimensions
CalculateDimensions(es) ==
  IF Len(es) = 0 THEN [width |-> 0, height |-> 0]
  ELSE LET positions == [i \in 1..Len(es) |-> Get(es[i].o, K_position, Obj(<<>>))]
           xs == CoordList(positions, K_x)
           ys == CoordList(positions, K_y)
       IN  IF Len(xs) = 0 \/ Len(ys) = 0 THEN [width |-> 0, height |-> 0]
           ELSE [width  |-> TruncHalf(Max(Range(xs)) - Min(Range(xs))) + 1,
                 height |-> TruncHalf(Max(Range(ys)) - Min(Range(ys))) + 1]

WordBits == 64

Zero64 == [i \in 1..WordBits |-> 0]

\* v >> n, and v & 0xFFFF as a number, for an int given by its bits (lowest
\* first).
ShiftRight(v, n) == [i \in 1..(Len(v) - n) |-> v[i + n]]

RECURSIVE LowBits(_, _)
LowBits(v, n) ==
  IF n = 0 \/ Len(v) = 0 THEN 0
  ELSE v[1] + (2 * LowBits(Tail(v), n - 1))

Mask16(v) == LowBits(v, 16)

\* A faulty _decode_version: every field taken 16 bits too low.
DecodeVersionLowFields(v) ==
  IF v = Zero64 THEN [major |-> 0, minor |-> 0, patch |-> 0]
  ELSE [major |-> Mask16(ShiftRight(v, 32)),
        minor |-> Mask16(ShiftRight(v, 16)),
        patch |-> Mask16(v)]

\* _decode_version
DecodeVersion(v) ==
  IF v = Zero64 THEN [major |-> 0, minor |-> 0, patch |-> 0]
  ELSE [major |-> Mask16(ShiftRight(v, 48)),
        minor |-> Mask16(ShiftRight(v, 32)),
        patch |-> Mask16(ShiftRight(v, 16))]

\* The bits of a natural number below 2^31, in a word of 64.
RECURSIVE NatBits(_, _)
NatBits(n, width) ==
  IF width = 0 THEN <<>> ELSE << n % 2 >> \o NatBits(n \div 2, width - 1)

\* The version field as the int it holds: a 64-bit value, or a small int of
\* the document.
VersionBits(v) == IF v.t = "u64" THEN v.bits ELSE NatBits(v.half2 \div 2, WordBits)

\* The values extract_metadata is modelled for: an entity list is a list of
\* dicts whose position, when present, is a dict of numbers, and the version
\* a non-negative int.
IsEntity(e) ==
  /\ e.t = "obj"
  /\ Get(e.o, K_name, Str(T_unknown)).t \in {"str", "null", "num", "bool"}
  /\ LET p == Get(e.o, K_position, Obj(<<>>))
     IN  /\ p.t = "obj"
         /\ Get(p.o, K_x, Num(0)).t = "num"
         /\ Get(p.o, K_y, Num(0)).t = "num"

IsVersion(v) ==
  \/ v.t = "u64"
  \/ v.t = "num" /\ ~v.float /\ v.half2 >= 0

Modelled(bp) ==
  /\ LET es == Get(bp.o, K_entities, Arr(<<>>))
     IN  es.t = "arr" /\ \A i \in 1..Len(es.a) : IsEntity(es.a[i])
  /\ IsVersion(Get(bp.o, K_version, Num(0)))

\* len(value) of a list, a dict or a str.
LenOf(v) ==
  CASE v.t = "arr" -> Return(Len(v.a))
    [] v.t = "obj" -> Return(Len(v.o))
    [] v.t = "str" -> Return(Len(v.s))
    [] OTHER       -> Raise("TypeError")

\* A faulty blueprint-book branch: the entries of nested books are counted
\* instead of the nested book.
RECURSIVE CountDeep(_)
CountDeep(a) ==
  IF Len(a) = 0 THEN 0
  ELSE (IF a[1].t = "obj" /\ Has(a[1].o, K_blueprint_book)
             /\ Get(a[1].o, K_blueprint_book, Null).t = "obj"
        THEN LET inner == Get(Get(a[1].o, K_blueprint_book, Null).o,
                              K_blueprints, Arr(<<>>))
             IN  IF inner.t = "arr" THEN CountDeep(inner.a) ELSE 1
        ELSE 1)
       + CountDeep(Tail(a))

ExtractBookDeep(book) ==
  IF book.t # "obj" THEN Raise("AttributeError")
  ELSE LET list == Get(book.o, K_blueprints, Arr(<<>>))
           n == IF list.t = "arr" THEN Return(CountDeep(list.a)) ELSE LenOf(list)
       IN  IF ~n.ok THEN n
           ELSE Return([type |-> "blueprint_book",
                        name |-> Get(book.o, K_label, Str(T_untitled_book)),
                        description |-> Get(book.o, K_description, Str(<<>>)),
                        blueprint_count |-> n.val])

\* The blueprint-book branch: the book's label, description and the number
\* of entries of its list.
ExtractBook(book) ==
  IF book.t # "obj" THEN Raise("AttributeError")
  ELSE LET n == LenOf(Get(book.o, K_blueprints, Arr(<<>>)))
       IN  IF ~n.ok THEN n
           ELSE Return([type |-> "blueprint_book",
                        name |-> Get(book.o, K_label, Str(T_untitled_book)),
                        description |-> Get(book.o, K_description, Str(<<>>)),
                        blueprint_count |-> n.val])

\* A faulty single-blueprint branch: the label read with bp["label"].
ExtractBlueprintLabelled(bp) ==
  IF bp.t # "obj" THEN Raise("AttributeError")
  ELSE IF ~Has(bp.o, K_label) THEN Raise("KeyError")
  ELSE IF ~Modelled(bp) THEN Raise("unmodelled")
  ELSE LET es == Get(bp.o, K_entities, Arr(<<>>)).a
           dims == CalculateDimensions(es)
           ver == DecodeVersion(VersionBits(Get(bp.o, K_version, Num(0))))
       IN  Return([type |-> "blueprint",
                   name |-> Get(bp.o, K_label, Str(T_untitled)),
                   description |-> Get(bp.o, K_description, Str(<<>>)),
                   entity_count |-> Len(es),
                   entity_counts |-> CountEntities(es, 1, <<>>),
                   width |-> dims.width,
                   height |-> dims.height,
                   version_major |-> ver.major,
                   version_minor |-> ver.minor,
                   version_patch |-> ver.patch])

\* The single-blueprint branch.
ExtractBlueprint(bp) ==
  IF bp.t # "obj" THEN Raise("AttributeError")
  ELSE IF ~Modelled(bp) THEN Raise("unmodelled")
  ELSE LET es == Get(bp.o, K_entities, Arr(<<>>)).a
           dims == CalculateDimensions(es)
           ver == DecodeVersion(VersionBits(Get(bp.o, K_version, Num(0))))
       IN  Return([type |-> "blueprint",
                   name |-> Get(bp.o, K_label, Str(T_untitled)),
                   description |-> Get(bp.o, K_description, Str(<<>>)),
                   entity_count |-> Len(es),
                   entity_counts |-> CountEntities(es, 1, <<>>),
                   width |-> dims.width,
                   height |-> dims.height,
                   version_major |-> ver.major,
                   version_minor |-> ver.minor,
                   version_patch |-> ver.patch])

\* extract_metadata: "blueprint" first, then "blueprint_book", else
\* BlueprintParseError.  The in test fails with TypeError on a number, a
\* bool or null, and so does the subscript on a list or a str.
ExtractMetadata(doc) ==
  IF doc.t \notin {"obj", "arr", "str"} THEN Raise("TypeError")
  ELSE IF Contains(doc, K_blueprint)
  THEN (IF doc.t # "obj" THEN Raise("TypeError")
        ELSE ExtractBlueprint(Get(doc.o, K_blueprint, Null)))
  ELSE IF Contains(doc, K_blueprint_book)
  THEN (IF doc.t # "obj" THEN Raise("TypeError")
        ELSE ExtractBook(Get(doc.o, K_blueprint_book, Null)))
  ELSE Raise("BlueprintParseError")

\* A call extract_metadata(blueprint_data).
ExtractMetadataCall ==
  /\ pc = "extract"
  /\ LET r == ExtractMetadata(blueprint_data)
     IN  IF r.ok
         THEN /\ metadata' = r.val
              /\ pc' = "extracted"
              /\ UNCHANGED exc
         ELSE /\ exc' = r.exc
              /\ pc' = "raised"
              /\ UNCHANGED metadata
  /\ UNCHANGED svars
  /\ UNCHANGED <<blueprint_string, encoded_data, compressed_data, json_data,
                 blueprint_data, entities, dimensions, prior, version_int,
                 version>>

(***************************************************************************)
(* Documents of the extraction specification.                              *)
(***************************************************************************)

MaxEntities == 2

MaxEntries == 3

\* The int whose four 16-bit fields, highest first, are major, minor, patch
\* and dev.
Version64(major, minor, patch, dev) ==
  [t |-> "u64",
   bits |-> NatBits(dev, 16) \o NatBits(patch, 16) \o NatBits(minor, 16)
            \o NatBits(major, 16)]

\* What a member of a dict may be: absent, or one of the values.
Absent == [t |-> "absent"]

Optional(vals) == {Absent} \union vals

\* The dict of the members that are present, in the order given.
Members(pairs) == Obj(SelectSeq(pairs, LAMBDA m : m[2] # Absent))

PositionXY(x, y) == Obj(<< << K_x, x >>, << K_y, y >> >>)

\* Entities: a name or none, a position or none.
ExtractEntities ==
  {Members(<< << K_name, n >>, << K_position, q >> >>) :
     n \in Optional({Str(T_belt), Str(T_inserter), Str(T_unknown)}),
     q \in Optional({PositionXY(Float(1), Float(1)), PositionXY(Float(5), Float(1)),
                     Obj(<<>>), Obj(<< << K_x, Num(4) >> >>),
                     Obj(<< << K_y, Float(-3) >> >>)})}

ExtractVersions == {Version64(1, 0, 0, 0), Version64(1, 1, 110, 3)}

BlueprintRecords ==
  {Members(<< << K_label, l >>, << K_description, d >>, << K_entities, e >>,
              << K_version, v >> >>) :
     l \in Optional({Str(<< "T" >>)}),
     d \in Optional({Str(<< "d" >>)}),
     e \in Optional({Arr(a) : a \in SeqsUpTo(ExtractEntities, MaxEntities)}),
     v \in Optional(ExtractVersions)}

\* The entries of a book: blueprints and a nested book.
BookEntries == {Obj(<<>>), MinimalDoc, BookDoc}

BookRecords ==
  {Members(<< << K_label, l >>, << K_description, d >>, << K_blueprints, b >> >>) :
     l \in Optional({Str(<< "X" >>)}),
     d \in Optional({Str(<< "d" >>)}),
     b \in Optional({Arr(a) : a \in SeqsUpTo(BookEntries, MaxEntries)})}

\* Documents json.loads can return that are not dicts of dicts: the key
\* present with a value that is not a dict, and documents that are not dicts.
LooseDocs ==
  {Obj(<< << K_blueprint, v >> >>) : v \in {Null, Arr(<<>>), Num(1)}}
  \union {Obj(<< << K_blueprint_book, v >> >>) : v \in {Null, Str(<< "X" >>)}}
  \union {Obj(<< << K_blueprint, Null >>, << K_blueprint_book, BookDoc.o[1][2] >> >>)}
  \union {Null, Num(1), Bool(TRUE), Arr(<<>>), Arr(<< Str(K_blueprint) >>),
          Str(<< "X" >>), Str(K_blueprint_book)}

\* Documents with the blueprint key, with the book key, with both (in either
\* order) and with neither.
ExtractDocs ==
  {Obj(<< << K_blueprint, r >> >>) : r \in BlueprintRecords}
  \union {Obj(<< << K_blueprint_book, r >> >>) : r \in BookRecords}
  \union {Obj(<< << K_blueprint, r >>, << K_blueprint_book, b >> >>) :
            r \in {MinimalDoc.o[1][2], SampleDoc.o[1][2]},
            b \in {BookDoc.o[1][2], Obj(<<>>)}}
  \union {Obj(<< << K_blueprint_book, b >>, << K_blueprint, r >> >>) :
            r \in {MinimalDoc.o[1][2], SampleDoc.o[1][2]},
            b \in {BookDoc.o[1][2], Obj(<<>>)}}
  \union {EmptyDoc, Obj(<< << << "a" >>, Num(1) >> >>),
          Obj(<< << K_label, Str(<< "T" >>) >>, << K_entities, Arr(<<>>) >> >>)}
  \union LooseDocs

\* A call extract_metadata(blueprint_data).
InitExtract ==
  /\ pc = "extract"
  /\ blueprint_data \in ExtractDocs
  /\ blueprint_string = <<>>
  /\ encoded_data = <<>>
  /\ compressed_data = <<>>
  /\ json_data = <<>>
  /\ exc = "none"
  /\ NoService
  /\ metadata = Null
  /\ entities = <<>>
  /\ dimensions = Null
  /\ prior = Null
  /\ version_int = <<>>
  /\ version = Null

NextExtract == ExtractMetadataCall

SpecExtract == InitExtract /\ [][NextExtract]_vars

(***************************************************************************)
(* parse: decode, then extract_metadata on the document it returns.        *)
(***************************************************************************)

\* decode has returned to parse, which calls extract_metadata.
ParseDecoded ==
  /\ pc = "decoded"
  /\ pc' = "extract"
  /\ UNCHANGED svars
  /\ UNCHANGED <<blueprint_string, encoded_data, compressed_data, json_data,
                 blueprint_data, exc, metadata, entities, dimensions, prior,
                 version_int, version>>

\* A call parse(blueprint_string).
InitParse == InitDecode

NextParse == NextDecode \/ ParseDecoded \/ ExtractMetadataCall

SpecParse == InitParse /\ [][NextParse]_vars

(***************************************************************************)
(* The service: POST /api/blueprints/ calls create_blueprint, which calls  *)
(* parse and stores what it returns.  The session is made with             *)
(* autoflush=False: a query sees the committed rows and the rows flushed   *)
(* in the open transaction, not the objects only added to the session.     *)
(***************************************************************************)

\* The id a table gives its next row.
NextId(table) == IF table = {} THEN 1 ELSE Max({r.id : r \in table}) + 1

\* The session calls made so far, with more calls after them.
Called(more) == [db EXCEPT !.calls = db.calls \o more]

\* The keys of the metadata record that create_blueprint subscripts before
\* it touches the session.
BlueprintKeys ==
  {"name", "description", "version_major", "version_minor", "version_patch",
   "width", "height", "entity_count"}

\* A faulty entry of create_blueprint: the first tag of the request is
\* created and added to the session before parse is called.
CreateBlueprintCallTagFirst ==
  /\ pc = "create"
  /\ pc' = "marker"
  /\ db' = IF tag_names = Null \/ tag_names = Arr(<<>>) THEN db
           ELSE [Called(<< "add" >>) EXCEPT
                   !.new = << [table |-> "tags", id |-> 0, name |-> tag_names.a[1]] >>]
  /\ UNCHANGED <<tag_names, blueprint, response>>
  /\ UNCHANGED <<blueprint_string, encoded_data, compressed_data, json_data,
                 blueprint_data, exc, metadata, entities, dimensions, prior,
                 version_int, version>>

\* The request enters create_blueprint, whose first statement calls parse.
CreateBlueprintCall ==
  /\ pc = "create"
  /\ pc' = "marker"
  /\ UNCHANGED svars
  /\ UNCHANGED <<blueprint_string, encoded_data, compressed_data, json_data,
                 blueprint_data, exc, metadata, entities, dimensions, prior,
                 version_int, version>>

\* parse has returned: Blueprint(name=metadata["name"], ...).  A key the
\* record does not have raises KeyError.
BuildBlueprint ==
  /\ pc = "extracted"
  /\ IF BlueprintKeys \subseteq DOMAIN metadata
     THEN /\ blueprint' = [id |-> 0,
                           name |-> metadata.name,
                           description |-> metadata.description,
                           blueprint_string |-> blueprint_string,
                           version_major |-> metadata.version_major,
                           version_minor |-> metadata.version_minor,
                           version_patch |-> metadata.version_patch,
                           width |-> metadata.width,
                           height |-> metadata.height,
                           entity_count |-> metadata.entity_count,
                           tags |-> <<>>]
          /\ pc' = "add"
          /\ UNCHANGED exc
     ELSE /\ exc' = "KeyError"
          /\ pc' = "raised"
          /\ UNCHANGED blueprint
  /\ UNCHANGED <<tag_names, db, response>>
  /\ UNCHANGED <<blueprint_string, encoded_data, compressed_data, json_data,
                 blueprint_data, metadata, entities, dimensions, prior,
                 version_int, version>>

\* The row of a Blueprint object.
BlueprintRow(b) ==
  [id |-> b.id, name |-> b.name, description |-> b.description,
   blueprint_string |-> b.blueprint_string,
   version_major |-> b.version_major, version_minor |-> b.version_minor,
   version_patch |-> b.version_patch, width |-> b.width, height |-> b.height,
   entity_count |-> b.entity_count]

\* db.add(blueprint); db.flush(): the row is inserted in the open
\* transaction and the object gets its id.  The column name is NOT NULL.
AddBlueprint ==
  /\ pc = "add"
  /\ IF blueprint.name = Null
     THEN /\ exc' = "IntegrityError"
          /\ pc' = "raised"
          /\ db' = [Called(<< "add", "flush" >>) EXCEPT !.new = << blueprint >>]
          /\ UNCHANGED blueprint
     ELSE LET b == [blueprint EXCEPT !.id = NextId(db.rows.blueprints)]
          IN  /\ blueprint' = b
              /\ db' = [Called(<< "add", "flush" >>) EXCEPT
                          !.flushed.blueprints = {BlueprintRow(b)}]
              /\ pc' = "entities"
              /\ UNCHANGED exc
  /\ UNCHANGED <<tag_names, response>>
  /\ UNCHANGED <<blueprint_string, encoded_data, compressed_data, json_data,
                 blueprint_data, metadata, entities, dimensions, prior,
                 version_int, version>>

\* The loop over metadata["entity_counts"].items(): one BlueprintEntity per
\* name, each added to the session.
AddEntityRows ==
  /\ pc = "entities"
  /\ IF "entity_counts" \in DOMAIN metadata
     THEN LET counts == metadata.entity_counts
              rows == [i \in 1..Len(counts) |->
                         [table |-> "blueprint_entities",
                          blueprint_id |-> blueprint.id,
                          entity_name |-> counts[i][1],
                          entity_count |-> counts[i][2]]]
          IN  /\ db' = [Called([i \in 1..Len(counts) |-> "add"]) EXCEPT
                          !.new = db.new \o rows]
              /\ pc' = "tags"
              /\ UNCHANGED exc
     ELSE /\ exc' = "KeyError"
          /\ pc' = "raised"
          /\ UNCHANGED db
  /\ UNCHANGED <<tag_names, blueprint, response>>
  /\ UNCHANGED <<blueprint_string, encoded_data, compressed_data, json_data,
                 blueprint_data, metadata, entities, dimensions, prior,
                 version_int, version>>

\* db.query(Tag).filter(Tag.name == tag_name).first(): a row of the table or
\* of the open transaction; the tags only added to the session are not seen.
QueryTag(tag_name) ==
  {t \in db.rows.tags \union db.flushed.tags : t.name = tag_name}

\* The session calls of the loop over tag_names from the i-th name on.
RECURSIVE TagCalls(_, _)
TagCalls(names, i) ==
  IF i > Len(names) THEN <<>>
  ELSE (IF QueryTag(names[i]) = {} THEN << "query", "add" >> ELSE << "query" >>)
       \o TagCalls(names, i + 1)

\* if tag_names: the loop that gets or creates each tag and appends it to
\* blueprint.tags.  None and the empty list skip it.
AddTags ==
  /\ pc = "tags"
  /\ IF tag_names = Null \/ tag_names = Arr(<<>>)
     THEN UNCHANGED <<db, blueprint>>
     ELSE LET tagged == [i \in 1..Len(tag_names.a) |->
                           IF QueryTag(tag_names.a[i]) = {}
                           THEN [table |-> "tags", id |-> 0, name |-> tag_names.a[i]]
                           ELSE [table |-> "tags",
                                 id |-> (CHOOSE t \in QueryTag(tag_names.a[i]) : TRUE).id,
                                 name |-> tag_names.a[i]]]
          IN  /\ blueprint' = [blueprint EXCEPT !.tags = tagged]
              /\ db' = [Called(TagCalls(tag_names.a, 1)) EXCEPT
                          !.new = db.new \o SelectSeq(tagged, LAMBDA t : t.id = 0)]
  /\ pc' = "commit"
  /\ UNCHANGED <<tag_names, response, exc>>
  /\ UNCHANGED <<blueprint_string, encoded_data, compressed_data, json_data,
                 blueprint_data, metadata, entities, dimensions, prior,
                 version_int, version>>

\* Two entries of a sequence of tags with the same name, both new or both
\* stored as asked.
Twice(tags, stored) ==
  \E i, j \in 1..Len(tags) :
    /\ i < j
    /\ tags[i].name = tags[j].name
    /\ (tags[i].id # 0) = stored

\* db.commit(); db.refresh(blueprint); return blueprint.  The commit flushes
\* the added objects: tags.name is unique and blueprint_entities.entity_name
\* NOT NULL, so two new tags of one name, or an entity row without a name,
\* raise IntegrityError.  A stored tag appended twice to blueprint.tags gives
\* one or two rows for blueprint_tags, whose primary key is the pair: both
\* outcomes are kept.
Commit ==
  /\ pc = "commit"
  /\ LET new_tags == SelectSeq(db.new, LAMBDA o : o.table = "tags")
         new_entities == SelectSeq(db.new, LAMBDA o : o.table = "blueprint_entities")
         first == NextId(db.rows.tags)
         TagId(t) == IF t.id # 0 THEN t.id
                     ELSE first - 1 + (CHOOSE k \in 1..Len(new_tags) :
                                         new_tags[k].name = t.name)
         fails == \/ Twice(new_tags, FALSE)
                  \/ \E i \in 1..Len(new_entities) : new_entities[i].entity_name = Null
         may_fail == Twice(blueprint.tags, TRUE)
     IN  \E failed \in (IF fails THEN {TRUE} ELSE IF may_fail THEN {FALSE, TRUE} ELSE {FALSE}) :
           IF failed
           THEN /\ exc' = "IntegrityError"
                /\ pc' = "raised"
                /\ db' = Called(<< "commit" >>)
           ELSE /\ db' = [rows |->
                           [blueprints |-> db.rows.blueprints \union db.flushed.blueprints,
                            blueprint_entities |->
                              db.rows.blueprint_entities \union
                              {[blueprint_id |-> new_entities[i].blueprint_id,
                                entity_name |-> new_entities[i].entity_name,
                                entity_count |-> new_entities[i].entity_count] :
                                 i \in 1..Len(new_entities)},
                            tags |-> db.rows.tags \union
                                     {[id |-> TagId(new_tags[i]), name |-> new_tags[i].name] :
                                        i \in 1..Len(new_tags)},
                            blueprint_tags |->
                              db.rows.blueprint_tags \union
                              {[blueprint_id |-> blueprint.id,
                                tag_id |-> TagId(blueprint.tags[i])] :
                                 i \in 1..Len(blueprint.tags)}],
                         new |-> <<>>,
                         flushed |-> NoRows,
                         calls |-> db.calls \o << "commit", "refresh" >>]
                /\ pc' = "returned"
                /\ UNCHANGED exc
  /\ UNCHANGED <<tag_names, blueprint, response>>
  /\ UNCHANGED <<blueprint_string, encoded_data, compressed_data, json_data,
                 blueprint_data, metadata, entities, dimensions, prior,
                 version_int, version>>

\* The endpoint: 201 with the blueprint, 400 for BlueprintParseError; any
\* other error leaves the endpoint unhandled.  get_db then closes the
\* session, which drops what was not committed.
Respond ==
  /\ pc \in {"returned", "raised"}
  /\ response' = IF pc = "returned" THEN "201"
                 ELSE IF exc = "BlueprintParseError" THEN "400"
                 ELSE "unhandled"
  /\ db' = [Called(<< "close" >>) EXCEPT !.new = <<>>, !.flushed = NoRows]
  /\ pc' = "responded"
  /\ UNCHANGED <<tag_names, blueprint>>
  /\ UNCHANGED <<blueprint_string, encoded_data, compressed_data, json_data,
                 blueprint_data, exc, metadata, entities, dimensions, prior,
                 version_int, version>>

\* The requests: encoded documents of both variants, documents and strings
\* parse refuses, and tag lists (None, empty, new and stored names, a name
\* twice), on an empty database and on one with a blueprint tagged "b".
LabelNullDoc == Obj(<< << K_blueprint, Obj(<< << K_label, Null >> >>) >> >>)

ServiceDocs ==
  {MinimalDoc, SampleDoc, BookDoc, Obj(<< << K_blueprint_book, Obj(<<>>) >> >>),
   EmptyDoc, Obj(<< << K_blueprint, Null >> >>), LabelNullDoc}

ServiceInputs ==
  {Encode(d) : d \in ServiceDocs}
  \union {<<>>, << "e", "0" >>, << "0" >>, << "0", "U+00E9" >>, << "!", "U+00E9" >>,
          EncodeBytes(<< 255 >>), EncodeBytes(TextBytes(<< "{" >>))}

TagLists ==
  {Null}
  \union {Arr(names) : names \in {<<>>, << "a" >>, << "a", "b" >>, << "b", "a" >>,
                                   << "a", "a" >>, << "b", "b" >>}}

StoredRows ==
  [blueprints |-> {BlueprintRow([id |-> 1, name |-> Str(<< "o", "l", "d" >>),
                                 description |-> Str(<<>>),
                                 blueprint_string |-> Encode(MinimalDoc),
                                 version_major |-> 0, version_minor |-> 0,
                                 version_patch |-> 0, width |-> 0, height |-> 0,
                                 entity_count |-> 0])},
   blueprint_entities |-> {},
   tags |-> {[id |-> 1, name |-> "b"]},
   blueprint_tags |-> {[blueprint_id |-> 1, tag_id |-> 1]}]

InitialRows == {NoRows, StoredRows}

\* A request POST /api/blueprints/.
InitService ==
  /\ pc = "create"
  /\ blueprint_string \in ServiceInputs
  /\ tag_names \in TagLists
  /\ db \in {Database(rows) : rows \in InitialRows}
  /\ blueprint = Null
  /\ response = "none"
  /\ encoded_data = <<>>
  /\ compressed_data = <<>>
  /\ json_data = <<>>
  /\ blueprint_data = Null
  /\ exc = "none"
  /\ metadata = Null
  /\ entities = <<>>
  /\ dimensions = Null
  /\ prior = Null
  /\ version_int = <<>>
  /\ version = Null

NextService ==
  \/ CreateBlueprintCall
  \/ NextParse
  \/ BuildBlueprint
  \/ AddBlueprint
  \/ AddEntityRows
  \/ AddTags
  \/ Commit
  \/ Respond

SpecService == InitService /\ [][NextService]_vars

(***************************************************************************)
(* Calls of _calculate_dimensions on a growing entity list.                *)
(***************************************************************************)

MaxDimEntities == 3

\* Coordinates in halves: -1.5, 0, 5 and 5.5 for x; 0, 3 and 3.5 for y.
XCoords == {-3, 0, 10, 11}

YCoords == {0, 6, 7}

\* The number h/2 as json.loads gives it: an int, or a float with a half.
Coord(h) == IF h % 2 = 0 THEN Num(h \div 2) ELSE Float(h)

\* Entities without a position, with an empty one, with x only, with y only
\* and with both.
DimEntities ==
  {Obj(<<>>), Obj(<< << K_position, Obj(<<>>) >> >>)}
  \union {Obj(<< << K_position, Obj(<< << K_x, Coord(x) >> >>) >> >>) : x \in XCoords}
  \union {Obj(<< << K_position, Obj(<< << K_y, Coord(y) >> >>) >> >>) : y \in YCoords}
  \union {Obj(<< << K_position, PositionXY(Coord(x), Coord(y)) >> >>) :
            x \in XCoords, y \in YCoords}

\* A call _calculate_dimensions(entities).
CalculateDimensionsCall ==
  /\ pc = "dims"
  /\ dimensions' = CalculateDimensions(entities)
  /\ pc' = "dims_done"
  /\ UNCHANGED svars
  /\ UNCHANGED <<blueprint_string, encoded_data, compressed_data, json_data,
                 blueprint_data, exc, metadata, entities, prior, version_int,
                 version>>

\* The caller adds one entity to the list and asks for the dimensions again;
\* prior keeps the list and the result of the call before.
AddEntity ==
  /\ pc = "dims_done"
  /\ Len(entities) < MaxDimEntities
  /\ \E e \in DimEntities : entities' = Append(entities, e)
  /\ prior' = [entities |-> entities, dimensions |-> dimensions]
  /\ dimensions' = Null
  /\ pc' = "dims"
  /\ UNCHANGED svars
  /\ UNCHANGED <<blueprint_string, encoded_data, compressed_data, json_data,
                 blueprint_data, exc, metadata, version_int, version>>

InitDims ==
  /\ pc = "dims"
  /\ entities = <<>>
  /\ dimensions = Null
  /\ prior = Null
  /\ blueprint_string = <<>>
  /\ encoded_data = <<>>
  /\ compressed_data = <<>>
  /\ json_data = <<>>
  /\ blueprint_data = Null
  /\ exc = "none"
  /\ NoService
  /\ metadata = Null
  /\ version_int = <<>>
  /\ version = Null

NextDims == CalculateDimensionsCall \/ AddEntity

SpecDims == InitDims /\ [][NextDims]_vars

(***************************************************************************)
(* Calls of _decode_version.                                               *)
(***************************************************************************)

\* Values of a 16-bit field: the ends of its range and some between.
FieldValues == {0, 1, 2, 110, 32768, 65535}

VersionInputs ==
  {Version64(a, b, c, d).bits :
     a \in FieldValues, b \in FieldValues, c \in FieldValues, d \in FieldValues}

\* A call _decode_version(version_int).
DecodeVersionCall ==
  /\ pc = "version"
  /\ version' = DecodeVersion(version_int)
  /\ pc' = "version_done"
  /\ UNCHANGED svars
  /\ UNCHANGED <<blueprint_string, encoded_data, compressed_data, json_data,
                 blueprint_data, exc, metadata, entities, dimensions, prior,
                 version_int>>

InitVersion ==
  /\ pc = "version"
  /\ version_int \in VersionInputs
  /\ version = Null
  /\ blueprint_string = <<>>
  /\ encoded_data = <<>>
  /\ compressed_data = <<>>
  /\ json_data = <<>>
  /\ blueprint_data = Null
  /\ exc = "none"
  /\ NoService
  /\ metadata = Null
  /\ entities = <<>>
  /\ dimensions = Null
  /\ prior = Null

NextVersion == DecodeVersionCall

SpecVersion == InitVersion /\ [][NextVersion]_vars

(***************************************************************************)
(* The whole: a call of any of the operations, or a request.               *)
(***************************************************************************)

Init == InitDecode \/ InitExtract \/ InitDims \/ InitVersion \/ InitService

Next ==
  \/ CheckMarker
  \/ Base64Decode
  \/ ZlibDecompress
  \/ JsonParse
  \/ ExtractMetadataCall
  \/ CalculateDimensionsCall
  \/ AddEntity
  \/ DecodeVersionCall
  \/ ParseDecoded
  \/ CreateBlueprintCall
  \/ BuildBlueprint
  \/ AddBlueprint
  \/ AddEntityRows
  \/ AddTags
  \/ Commit
  \/ Respond

Spec == Init /\ [][Next]_vars

(***************************************************************************)
(* Properties of decode (under SpecDecode).                                *)
(***************************************************************************)

\* The input string does not start with the character "0".
NoMarker == Len(blueprint_string) = 0 \/ blueprint_string[1] # "0"

\* C1: decode fails with BlueprintParseError for every string that does not
\* start with "0", the empty string included, whatever follows: no later
\* stage runs on such a string and no document is returned.
C1_MarkerInvariant ==
  NoMarker =>
    /\ pc \in {"marker", "raised"}
    /\ pc = "raised" => exc = "BlueprintParseError"
    /\ blueprint_data = Null

\* C1 witness: a valid encoded blueprint behind a "!" has been refused.
C1_Witness ==
  /\ pc = "raised"
  /\ exc = "BlueprintParseError"
  /\ Len(blueprint_string) > 1
  /\ blueprint_string[1] = "!"
  /\ Tail(blueprint_string) \in MutationBases

\* C2 (as claimed): whenever decode fails, whichever stage fails, the
\* error that leaves it is BlueprintParseError and never any other kind.
C2_OnlyFormatError == pc = "raised" => exc = "BlueprintParseError"

\* A well-formed base64 text: alphabet characters in groups of four, the
\* last group ending in at most two pads.
WellFormedBase64(s) ==
  /\ Len(s) % 4 = 0
  /\ \A i \in 1..Len(s) :
       \/ B64Value(s[i]) < 64
       \/ s[i] = "=" /\ i >= Len(s) - 1 /\ \A j \in i..Len(s) : s[j] = "="

\* C3 (as claimed): for a string that starts with "0" and whose remainder is
\* malformed as base64 (a character outside the alphabet and padding, bad
\* padding or length), decode fails with BlueprintParseError and returns no
\* document.
C3_MalformedBase64Fails ==
  (~NoMarker /\ ~WellFormedBase64(Tail(blueprint_string))) =>
    /\ pc # "decoded"
    /\ pc = "raised" => exc = "BlueprintParseError"

\* Each document of the specification with its wire encoding.
EncodedDocs == {<< Encode(d), d >> : d \in WireDocs}

\* C4: round trip: decode of "0" + base64(deflate(utf8_json(D))) does not
\* fail and returns a document equal to D.
C4_RoundTrip ==
  \A p \in EncodedDocs :
    blueprint_string = p[1] =>
      /\ pc # "raised"
      /\ pc = "decoded" => blueprint_data = p[2]

\* C4 witness: the encoded sample blueprint has been decoded to itself.
C4_Witness ==
  /\ pc = "decoded"
  /\ blueprint_string = Encode(SampleDoc)
  /\ blueprint_data = SampleDoc

(***************************************************************************)
(* Properties of extract_metadata (under SpecExtract).                     *)
(***************************************************************************)

\* The values a dict's members hold under a key.
Under(v, k) == {v.o[i][2] : i \in {j \in 1..Len(v.o) : v.o[j][1] = k}}

TopHas(k) == blueprint_data.t = "obj" /\ Under(blueprint_data, k) # {}

\* C5: extract classifies by the top-level keys: with "blueprint" present
\* the result is the blueprint variant (also when "blueprint_book" is
\* present too), with only "blueprint_book" the book variant, and with
\* neither it fails with BlueprintParseError and returns no record.
C5_Classification ==
  pc \in {"extracted", "raised"} =>
    /\ TopHas(K_blueprint) =>
         pc = "extracted" /\ metadata.type = "blueprint"
    /\ (~TopHas(K_blueprint) /\ TopHas(K_blueprint_book)) =>
         pc = "extracted" /\ metadata.type = "blueprint_book"
    /\ (~TopHas(K_blueprint) /\ ~TopHas(K_blueprint_book)) =>
         pc = "raised" /\ exc = "BlueprintParseError" /\ metadata = Null

\* C5 witness: a document with both keys, the book first, came out as a
\* blueprint.
C5_Witness ==
  /\ pc = "extracted"
  /\ Len(blueprint_data.o) = 2
  /\ blueprint_data.o[1][1] = K_blueprint_book
  /\ blueprint_data.o[2][1] = K_blueprint
  /\ metadata.type = "blueprint"

\* The entity list of the document's blueprint, empty when there is none.
DocEntities ==
  LET lists == UNION {Under(bp, K_entities) : bp \in Under(blueprint_data, K_blueprint)}
  IN  IF lists = {} THEN <<>> ELSE (CHOOSE l \in lists : TRUE).a

\* The name an entity is counted under.
CountedAs(e) ==
  IF Under(e, K_name) = {} THEN Str(T_unknown)
  ELSE CHOOSE n \in Under(e, K_name) : TRUE

RECURSIVE SumCounts(_)
SumCounts(counts) ==
  IF Len(counts) = 0 THEN 0 ELSE counts[1][2] + SumCounts(Tail(counts))

\* C6: histogram totals: the values of entity_counts sum to the length of
\* the entity list, entity_count is that length, and each name's count is
\* the number of entities with that name ("unknown" for an entity without
\* one), with or without a position.
C6_HistogramTotals ==
  (pc = "extracted" /\ metadata.type = "blueprint") =>
    LET es == DocEntities
        counts == metadata.entity_counts
    IN  /\ metadata.entity_count = Len(es)
        /\ SumCounts(counts) = Len(es)
        /\ \A i \in 1..Len(es) : \E j \in 1..Len(counts) :
             counts[j][1] = CountedAs(es[i])
        /\ \A j \in 1..Len(counts) :
             /\ counts[j][2] =
                  Cardinality({i \in 1..Len(es) : CountedAs(es[i]) = counts[j][1]})
             /\ \A k \in 1..Len(counts) : counts[k][1] = counts[j][1] => k = j

\* C6 witness: two entities counted as "unknown", one of them without a name
\* and without a position, the other named "unknown" and placed.
C6_Witness ==
  /\ pc = "extracted"
  /\ metadata.type = "blueprint"
  /\ metadata.entity_counts = << << Str(T_unknown), 2 >> >>
  /\ DocEntities[1] = Obj(<<>>)
  /\ Under(DocEntities[2], K_position) # {}

(***************************************************************************)
(* Properties of _calculate_dimensions (under SpecDims).                   *)
(***************************************************************************)

\* The coordinates (in halves) under key of the entities of es whose
\* position has the key.
CoordsOf(es, key) ==
  UNION {{c.half2 : c \in Under(q, key)} :
           q \in UNION {Under(es[i], K_position) : i \in 1..Len(es)}}

\* No entity of es has a position with both x and y.
NoneHasBoth(es) ==
  \A i \in 1..Len(es) : \A q \in Under(es[i], K_position) :
    Under(q, K_x) = {} \/ Under(q, K_y) = {}

NoArea == [width |-> 0, height |-> 0]

\* C7 (as claimed): when no entity has a position with both x and y, the
\* width and the height are 0.
C7_FloorWithoutBoth ==
  (pc = "dims_done" /\ NoneHasBoth(entities)) => dimensions = NoArea

\* C7 (amended): when no entity has a position with x, or none has a
\* position with y, the width and the height are 0.
C7_FloorOnEmptyAxis ==
  (pc = "dims_done"
     /\ (CoordsOf(entities, K_x) = {} \/ CoordsOf(entities, K_y) = {}))
  => dimensions = NoArea

\* C7 witness: entities with x but none with y, and no area.
C7_Witness ==
  /\ pc = "dims_done"
  /\ Len(entities) >= 2
  /\ Cardinality(CoordsOf(entities, K_x)) >= 2
  /\ CoordsOf(entities, K_y) = {}
  /\ dimensions = NoArea

\* How far (in halves) the coordinate c lies outside the range of the set S.
Beyond(c, S) ==
  IF c > Max(S) THEN c - Max(S) ELSE IF c < Min(S) THEN Min(S) - c ELSE 0

\* The list before the last entity was added had a bounding box, and the
\* added entity has the coordinate under key outside that list's range: the
\* distance beyond it, in halves (0 when this is not the case).
AddedBeyond(key) ==
  IF pc # "dims_done" \/ prior = Null THEN 0
  ELSE IF CoordsOf(prior.entities, K_x) = {} \/ CoordsOf(prior.entities, K_y) = {}
  THEN 0
  ELSE LET new == CoordsOf(<< entities[Len(entities)] >>, key)
       IN  IF new = {} THEN 0
           ELSE Beyond(CHOOSE c \in new : TRUE, CoordsOf(prior.entities, key))

\* C8 (as claimed): adding an entity whose x lies outside the range of a
\* list with a bounding box increases the width by exactly the distance
\* beyond the range, and likewise y and the height.
C8_ExactIncrease ==
  /\ AddedBeyond(K_x) > 0 =>
       2 * (dimensions.width - prior.dimensions.width) = AddedBeyond(K_x)
  /\ AddedBeyond(K_y) > 0 =>
       2 * (dimensions.height - prior.dimensions.height) = AddedBeyond(K_y)

\* The increase of a dimension for a distance d (in halves) beyond the range:
\* the distance when it is whole, else the whole number just below or above.
IncreaseFits(increase, d) ==
  IF d % 2 = 0 THEN 2 * increase = d
  ELSE 2 * increase = d - 1 \/ 2 * increase = d + 1

\* C8 (amended): the width increases by exactly the distance beyond the
\* range when that distance is a whole number (all coordinates integers, or
\* all half-integers) and then strictly; when the distance has a half, the
\* width increases by the distance rounded down or up.  Likewise y and the
\* height.
C8_IncreaseByWholeDistance ==
  /\ AddedBeyond(K_x) > 0 =>
       IncreaseFits(dimensions.width - prior.dimensions.width, AddedBeyond(K_x))
  /\ AddedBeyond(K_y) > 0 =>
       IncreaseFits(dimensions.height - prior.dimensions.height, AddedBeyond(K_y))

\* C8 witness: half-integer x coordinates, the added one a whole distance
\* beyond a list of two entities, and a wider result.
C8_Witness ==
  /\ AddedBeyond(K_x) > 0
  /\ AddedBeyond(K_x) % 2 = 0
  /\ \A c \in CoordsOf(entities, K_x) : c % 2 = 1
  /\ Len(prior.entities) = 2
  /\ dimensions.width > prior.dimensions.width

PlacedAt(x, y) == Obj(<< << K_position, PositionXY(Coord(x), Coord(y)) >> >>)

\* C9: the x of every position that has x and the y of every position that
\* has y are collected independently; if either collection is empty the
\* width and height are 0, otherwise each is the truncated extent plus 1.  A
\* single placed entity gives 1 by 1; entities at (0,0) and (5,3) give 6 by 4.
C9_DimensionFormula ==
  pc = "dims_done" =>
    LET X == CoordsOf(entities, K_x)
        Y == CoordsOf(entities, K_y)
    IN  /\ (X = {} \/ Y = {}) => dimensions = NoArea
        /\ (X # {} /\ Y # {}) =>
             /\ dimensions.width = ((Max(X) - Min(X)) \div 2) + 1
             /\ dimensions.height = ((Max(Y) - Min(Y)) \div 2) + 1
        /\ (Len(entities) = 1 /\ X # {} /\ Y # {}) =>
             dimensions = [width |-> 1, height |-> 1]
        /\ entities = << PlacedAt(0, 0), PlacedAt(10, 6) >> =>
             dimensions = [width |-> 6, height |-> 4]

\* C9 witness: an entity with x only widens the box of the two entities at
\* (0,0) and (5,3).
C9_Witness ==
  /\ pc = "dims_done"
  /\ Len(entities) = 3
  /\ SubSeq(entities, 1, 2) = << PlacedAt(0, 0), PlacedAt(10, 6) >>
  /\ Under(entities[3], K_position) # {}
  /\ NoneHasBoth(<< entities[3] >>)
  /\ dimensions = [width |-> 7, height |-> 4]

(***************************************************************************)
(* Properties of _decode_version (under SpecVersion).                      *)
(***************************************************************************)

RECURSIVE BitsValue(_, _, _)
BitsValue(v, lo, hi) ==
  IF lo > hi THEN 0 ELSE v[lo] + (2 * BitsValue(v, lo + 1, hi))

\* The value with its 16 lowest bits cleared.
WithoutLow16(v) == [i \in 1..Len(v) |-> IF i <= 16 THEN 0 ELSE v[i]]

HasBlueprintObject ==
  /\ blueprint_data.t = "obj"
  /\ \E bp \in Under(blueprint_data, K_blueprint) : bp.t = "obj"

\* The value under key k of the dict v, or the default d.
OrDefault(v, k, d) == IF Under(v, k) = {} THEN d ELSE CHOOSE x \in Under(v, k) : TRUE

\* The extent of a set of coordinates (in halves) in tiles.
Extent(S) == ((Max(S) - Min(S)) \div 2) + 1

\* C11: for a document whose "blueprint" value is a dict, extract succeeds
\* whichever optional fields are absent: the name defaults to "Untitled
\* Blueprint", the description to "", the entities to the empty list, the
\* version to 0.0.0, an entity's name to "unknown", and an entity without a
\* position, x or y adds nothing to the geometry.  The minimal document
\* {"blueprint": {"entities": []}} gives type blueprint, name "Untitled
\* Blueprint", entity_count 0, width 0, height 0 and version 0.0.0.
C11_LenientDefaults ==
  (pc \in {"extracted", "raised"} /\ HasBlueprintObject) =>
    LET bp == CHOOSE b \in Under(blueprint_data, K_blueprint) : TRUE
        es == DocEntities
        X  == CoordsOf(es, K_x)
        Y  == CoordsOf(es, K_y)
    IN  /\ pc = "extracted"
        /\ metadata.type = "blueprint"
        /\ metadata.name = OrDefault(bp, K_label, Str(T_untitled))
        /\ metadata.description = OrDefault(bp, K_description, Str(<<>>))
        /\ Under(bp, K_entities) = {} =>
              metadata.entity_count = 0 /\ metadata.entity_counts = <<>>
        /\ Under(bp, K_version) = {} =>
              /\ metadata.version_major = 0
              /\ metadata.version_minor = 0
              /\ metadata.version_patch = 0
        /\ \A i \in 1..Len(es) :
              Under(es[i], K_name) = {} =>
                \E j \in 1..Len(metadata.entity_counts) :
                  metadata.entity_counts[j][1] = Str(T_unknown)
        /\ metadata.width = IF X = {} \/ Y = {} THEN 0 ELSE Extent(X)
        /\ metadata.height = IF X = {} \/ Y = {} THEN 0 ELSE Extent(Y)
        /\ blueprint_data = MinimalDoc =>
              metadata = [type |-> "blueprint", name |-> Str(T_untitled),
                          description |-> Str(<<>>), entity_count |-> 0,
                          entity_counts |-> <<>>, width |-> 0, height |-> 0,
                          version_major |-> 0, version_minor |-> 0,
                          version_patch |-> 0]

\* C11 witness: a blueprint without label, description and version whose
\* two entities have no name, one without a position and one with x only.
C11_Witness ==
  /\ pc = "extracted"
  /\ blueprint_data =
       Obj(<< << K_blueprint, Obj(<< << K_entities, Arr(<<
         Obj(<<>>),
         Obj(<< << K_position, Obj(<< << K_x, Num(4) >> >>) >> >>) >>) >> >>) >> >>)
  /\ metadata.name = Str(T_untitled)
  /\ metadata.entity_counts = << << Str(T_unknown), 2 >> >>
  /\ metadata.width = 0

(***************************************************************************)
(* The book branch of extract_metadata (under SpecExtract).                *)
(***************************************************************************)

\* The document has no "blueprint" key and a "blueprint_book" value that is
\* a dict.
HasBookObject ==
  /\ blueprint_data.t = "obj"
  /\ ~TopHas(K_blueprint)
  /\ \E b \in Under(blueprint_data, K_blueprint_book) : b.t = "obj"

\* C12: for a document classified as a book the record has the book's label
\* as name, or "Untitled Blueprint Book" without one, its description, or ""
\* without one, and as blueprint_count the number of top-level entries of
\* its list, or 0 without one; a nested book counts as one entry.
C12_BookPath ==
  /\ (pc \in {"extracted", "raised"} /\ HasBookObject) =>
        pc = "extracted" /\ metadata.type = "blueprint_book"
  /\ (pc = "extracted" /\ metadata.type = "blueprint_book") =>
        LET book == CHOOSE b \in Under(blueprint_data, K_blueprint_book) : TRUE
            list == OrDefault(book, K_blueprints, Arr(<<>>))
        IN  /\ ~TopHas(K_blueprint)
            /\ metadata =
                 [type |-> "blueprint_book",
                  name |-> OrDefault(book, K_label, Str(T_untitled_book)),
                  description |-> OrDefault(book, K_description, Str(<<>>)),
                  blueprint_count |-> Len(list.a)]
            /\ blueprint_data = BookDoc =>
                 metadata.name = Str(<< "X" >>) /\ metadata.blueprint_count = 3

\* C12 witness: a book without a label whose list holds a blueprint and a
\* book of three counts two entries.
C12_Witness ==
  /\ pc = "extracted"
  /\ blueprint_data =
       Obj(<< << K_blueprint_book,
                 Obj(<< << K_blueprints, Arr(<< MinimalDoc, BookDoc >>) >> >>) >> >>)
  /\ metadata.name = Str(T_untitled_book)
  /\ metadata.blueprint_count = 2

(***************************************************************************)
(* Stage order of parse (under SpecParse).                                 *)
(***************************************************************************)

\* What the stages give for the string s when run one after the other, each
\* on the result of the one before: the number of the first stage that
\* fails (1 marker, 2 base64, 3 zlib, 4 json, 5 classification; 6 when none
\* fails), the error that stage raises as it leaves decode or
\* extract_metadata, and the results of the stages that ran.
StagesOf(s) ==
  LET none == [compressed |-> <<>>, json |-> <<>>, doc |-> Null, meta |-> Null]
  IN
  IF Len(s) = 0 \/ s[1] # "0"
  THEN [stage |-> 1, exc |-> "BlueprintParseError"] @@ none
  ELSE LET b == B64Decode(Tail(s))
  IN  IF ~b.ok THEN [stage |-> 2, exc |-> DecodeExcept(b.exc)] @@ none
  ELSE LET z == Inflate(b.val)
  IN  IF ~z.ok
      THEN [stage |-> 3, exc |-> DecodeExcept(z.exc), compressed |-> b.val] @@ none
  ELSE LET j == JsonLoads(z.val)
  IN  IF ~j.ok
      THEN [stage |-> 4, exc |-> DecodeExcept(j.exc), compressed |-> b.val,
            json |-> z.val] @@ none
  ELSE LET m == ExtractMetadata(j.val)
  IN  [stage |-> IF m.ok THEN 6 ELSE 5, exc |-> m.exc, compressed |-> b.val,
       json |-> z.val, doc |-> j.val, meta |-> IF m.ok THEN m.val ELSE Null]

\* The stages that have run at a position of parse.
StagesRun ==
  CASE pc = "marker"     -> 0
    [] pc = "b64decode"  -> 1
    [] pc = "decompress" -> 2
    [] pc = "loads"      -> 3
    [] pc = "decoded"    -> 4
    [] pc = "extract"    -> 4
    [] pc = "extracted"  -> 5
    [] OTHER             -> 0

\* C13: parse runs marker check, base64 decode, decompression, json parse
\* and classification in that order and stops at the first stage that
\* fails: a stage runs only when all before it succeeded, the error that
\* leaves parse is that of the first failing stage (the marker's for a
\* string without marker that is not base64 either), no later stage has
\* left a result, and a metadata record exists only when every stage
\* succeeded.
C13_StageOrder ==
  LET o == StagesOf(blueprint_string)
  IN  /\ pc # "raised" => StagesRun < o.stage
      /\ pc = "raised" =>
            /\ o.stage <= 5
            /\ exc = o.exc
      /\ compressed_data = (IF pc = "raised" \/ StagesRun >= 2 THEN o.compressed ELSE <<>>)
      /\ json_data = (IF pc = "raised" \/ StagesRun >= 3 THEN o.json ELSE <<>>)
      /\ blueprint_data = (IF pc = "raised" \/ StagesRun >= 4 THEN o.doc ELSE Null)
      /\ metadata = (IF pc = "extracted" THEN o.meta ELSE Null)
      /\ metadata # Null => pc = "extracted" /\ o.stage = 6

\* C13 witness: a string without marker whose remainder base64 would refuse
\* with another error has been refused with the marker's error, and nothing
\* else has run.
C13_Witness ==
  /\ pc = "raised"
  /\ Len(blueprint_string) >= 2
  /\ blueprint_string[1] # "0"
  /\ B64Decode(Tail(blueprint_string)).exc = "ValueError"
  /\ exc = "BlueprintParseError"
  /\ encoded_data = <<>>
  /\ compressed_data = <<>>
  /\ metadata = Null

(***************************************************************************)
(* Properties of create_blueprint and its endpoint (under SpecService).    *)
(***************************************************************************)

\* C14 (as claimed): for every string parse accepts, of either variant,
\* create_blueprint stores a blueprint built from the metadata and the
\* request ends with 201; a request fails only when parse raised, and a
\* BlueprintParseError ends with 400.
C14_AcceptedIsStored ==
  pc = "responded" =>
    /\ metadata # Null =>
          /\ response = "201"
          /\ \E row \in db.rows.blueprints :
                /\ row.blueprint_string = blueprint_string
                /\ row.name = metadata.name
                /\ row.description = metadata.description
    /\ response # "201" => metadata = Null
    /\ exc = "BlueprintParseError" => response = "400"

\* Only the close of the session has been called on it.
OnlyClosed(calls) == \A i \in 1..Len(calls) : calls[i] = "close"

\* C15: while parse has not returned a record, and so when it raises, no
\* step adds to, flushes or commits the session: the stored blueprints,
\* entity rows, tags and links stay as they were, the tags of the request
\* are not created, and the error that ends create_blueprint is the one
\* parse raised.
C15_RejectedLeavesNoTrace ==
  [][metadata' = Null =>
       /\ db'.rows = db.rows
       /\ db'.new = <<>>
       /\ db'.flushed = NoRows
       /\ OnlyClosed(db'.calls)
       /\ blueprint' = Null
       /\ pc' = "responded" => exc' # "none" /\ response' # "201"]_vars

\* C15 witness: a request with the tags "a" and "b" whose string parse
\* refused has ended with 400; the database holds what it held, without a
\* tag "a".
C15_Witness ==
  /\ pc = "responded"
  /\ metadata = Null
  /\ exc = "BlueprintParseError"
  /\ response = "400"
  /\ tag_names = Arr(<< "a", "b" >>)
  /\ db.rows = StoredRows
  /\ db.calls = << "close" >>

====
